---------------------------- MODULE Spec2Model ----------------------------
(***************************************************************************)
(* mlsblk (src/mlsblk.c): list block devices as a forest.                  *)
(*                                                                         *)
(* One run of main(): the bulk listing is fetched, build_tree() turns it   *)
(* into a forest plus a flat index, fill_mountpoints() attaches mount      *)
(* points, fill_info() enriches every node of the flat index (-f), one of  *)
(* the three renderers prints, and the forest is released root by root.    *)
(*                                                                         *)
(* C strings are TLA+ strings, read character by character with SubSeq.    *)
(* A char* that may be NULL (and a CFTypeRef that may be absent) is a      *)
(* sequence of length 0 (NULL) or 1 (<<s>>).  A Node* is the position of   *)
(* the node in the flat index (NodeArray.arr), 0 for NULL.                 *)
(* Allocation failures (calloc, realloc, strdup returning NULL) are not    *)
(* modelled.                                                               *)
(***************************************************************************)
EXTENDS Integers, Sequences, FiniteSets, TLC

VARIABLES
    pc,         \* position of main(): start, getlist, build_tree, collect, mount,
                \* enrich, render, teardown, done, crashed
    status,     \* exit status of the process: -1 while running, 0, 1, or 134 (killed)
    errs,       \* diagnostics written to stderr, in order
    out,        \* rows written to stdout, in order
    opt_f,      \* -f given
    opt_J,      \* -J given
    opt_list,   \* -l given
    opt_o,      \* the argument of -o (NULL when not given)
    cols,       \* int cols[32] with ncols = Len(cols)
    list_plist, \* what get_list_plist returned: "unset", "NULL", or the record's shape
    flat,       \* NodeArray flat: the nodes, in creation order
    roots,      \* Node *roots[64] with nroots = Len(roots)
    cur,        \* disk_node of the collect_nodes iteration in progress (0: none)
    nent,       \* entries of the listing consumed so far (top-level, partition, volume)
    invols,     \* the current iteration has left its Partitions loop
    nmounts,    \* mount-table entries consumed by fill_mountpoints
    ei,         \* loop index i of the enrichment loop in main (0-based)
    freed,      \* per node: how many times node_free() released it
    hist,       \* history of the run, for stating the properties (not program state)
    fn          \* a call of one of the pure functions, made on its own: arguments and result

vars == <<pc, status, errs, out, opt_f, opt_J, opt_list, opt_o, cols, list_plist, flat, roots,
          cur, nent, invols, nmounts, ei, freed, hist, fn>>

-----------------------------------------------------------------------------
(* Bounds of the model *)

MaxEntries == 4     \* entries in a listing: top-level, partition and APFS-volume entries
MaxMounts == 1      \* mount-table entries
MaxNum == 105       \* largest disk and slice number of the identifiers compared
MaxTokens == 3      \* pieces a content description is put together from
MaxCols == 2        \* pieces of the argument of -o

(* Program constants *)

ROOTS_CAP == 64     \* Node *roots[64]; if (*nroots >= 64) continue;
COLS_CAP == 32      \* int cols[32]; if (*ncols >= 32) return -1;
KIB == 1024         \* fmt_size: while (v >= 1024 && u < 5)
FSTYPE_KEEP == 31   \* "%.31s"

-----------------------------------------------------------------------------
(* Strings *)

None == <<>>
Some(s) == <<s>>
IsNull(o) == o = <<>>
Val(o) == o[1]

Min(a, b) == IF a < b THEN a ELSE b

\* s[i] of a C string (1-based); "" stands for the terminating NUL
CharAt(s, i) == IF i >= 1 /\ i <= Len(s) THEN SubSeq(s, i, i) ELSE ""

\* strncmp(s, p, strlen(p)) == 0
HasPrefix(s, p) == Len(s) >= Len(p) /\ SubSeq(s, 1, Len(p)) = p

\* strstr(s, p) != NULL
strstr(s, p) ==
    \E i \in 1..(Len(s) - Len(p) + 1) : SubSeq(s, i, i + Len(p) - 1) = p

\* snprintf(out, outsz, "%.<n>s", s)
Truncate(s, n) == IF Len(s) <= n THEN s ELSE SubSeq(s, 1, n)

Digits == "0123456789"
Upper == "ABCDEFGHIJKLMNOPQRSTUVWXYZ"
Lower == "abcdefghijklmnopqrstuvwxyz"

IndexIn(tbl, c) ==
    IF \E i \in 1..Len(tbl) : SubSeq(tbl, i, i) = c
    THEN CHOOSE i \in 1..Len(tbl) : SubSeq(tbl, i, i) = c
    ELSE 0

\* (unsigned char)c, 0 for NUL, for the characters identifiers and paths use
Code(c) ==
    IF c = "" THEN 0
    ELSE IF IndexIn(Digits, c) > 0 THEN 47 + IndexIn(Digits, c)
    ELSE IF IndexIn(Upper, c) > 0 THEN 64 + IndexIn(Upper, c)
    ELSE IF IndexIn(Lower, c) > 0 THEN 96 + IndexIn(Lower, c)
    ELSE IF c = "_" THEN 95
    ELSE IF c = "/" THEN 47
    ELSE 32

IsDigit(c) == c # "" /\ Code(c) >= 48 /\ Code(c) <= 57

-----------------------------------------------------------------------------
(* name_cmp (src/mlsblk.c:83-102) *)

\* End of the decimal-digit run of s that starts at position i
RECURSIVE DigitsEnd(_, _)
DigitsEnd(s, i) == IF IsDigit(CharAt(s, i)) THEN DigitsEnd(s, i + 1) ELSE i

\* Value of the decimal digits s[i..j-1]
RECURSIVE DigitsVal(_, _, _)
DigitsVal(s, i, j) ==
    IF i >= j THEN 0
    ELSE DigitsVal(s, i, j - 1) * 10 + (Code(CharAt(s, j - 1)) - 48)

\* strtoul(p, &p, 10) on a position that holds a digit: the value and the
\* position after the run (values stay far below ULONG_MAX in this model)
strtoul(s, i) == [val |-> DigitsVal(s, i, DigitsEnd(s, i)), next |-> DigitsEnd(s, i)]

\* the while loop of name_cmp with pa, pb as positions into a, b
RECURSIVE NameCmpLoop(_, _, _, _)
NameCmpLoop(a, pa, b, pb) ==
    LET ca == CharAt(a, pa)
        cb == CharAt(b, pb)
    IN  IF ca = "" \/ cb = "" THEN Code(ca) - Code(cb)
        ELSE IF ca = cb THEN NameCmpLoop(a, pa + 1, b, pb + 1)
        ELSE IF ca = "s" THEN 1
        ELSE IF cb = "s" THEN -1
        ELSE IF IsDigit(ca) /\ IsDigit(cb) THEN
            LET na == strtoul(a, pa)
                nb == strtoul(b, pb)
            IN  IF na.val # nb.val
                THEN (IF na.val > nb.val THEN 1 ELSE 0) - (IF na.val < nb.val THEN 1 ELSE 0)
                ELSE NameCmpLoop(a, na.next, b, nb.next)
        ELSE Code(ca) - Code(cb)

name_cmp(a, b) ==
    LET pa == IF HasPrefix(a, "disk") THEN 5 ELSE 1
        pb == IF HasPrefix(b, "disk") THEN 5 ELSE 1
    IN  NameCmpLoop(a, pa, b, pb)

-----------------------------------------------------------------------------
(* content_to_fstype (src/mlsblk.c:212-219), content a possibly-NULL string *)

\* content_to_fstype with the partition-scheme and container markers tested first
content_to_fstype_markers_first(content) ==
    IF IsNull(content) THEN ""
    ELSE LET c == Val(content)
         IN  IF strstr(c, "GUID_partition_scheme") \/ strstr(c, "Apple_APFS_Container")
             THEN ""
             ELSE IF strstr(c, "APFS") \/ strstr(c, "41504653") THEN "apfs"
             ELSE IF strstr(c, "HFS") \/ strstr(c, "Apple_HFS") THEN "hfs"
             ELSE IF strstr(c, "EFI") \/ strstr(c, "C12A7328") THEN "vfat"
             ELSE Truncate(c, FSTYPE_KEEP)

content_to_fstype(content) ==
    IF IsNull(content) THEN ""
    ELSE LET c == Val(content)
         IN  IF strstr(c, "APFS") \/ strstr(c, "41504653") THEN "apfs"
             ELSE IF strstr(c, "HFS") \/ strstr(c, "Apple_HFS") THEN "hfs"
             ELSE IF strstr(c, "EFI") \/ strstr(c, "C12A7328") THEN "vfat"
             ELSE IF strstr(c, "GUID_partition_scheme") THEN ""
             ELSE Truncate(c, FSTYPE_KEEP)

-----------------------------------------------------------------------------
(* Nodes (src/mlsblk.c:24-80, 284-302) *)

node_create(name, size, type) ==
    [name |-> name, size |-> size, type |-> type, mountpoint |-> "",
     fstype |-> "", label |-> "", uuid |-> "", parent |-> 0, children |-> <<>>]

\* the search loop of ensure_node: the first index holding `name`, 0 if none
FindNode(f, name) ==
    IF \E i \in 1..Len(f) : f[i].name = name
    THEN CHOOSE i \in 1..Len(f) :
            f[i].name = name /\ \A j \in 1..(i - 1) : f[j].name # name
    ELSE 0

\* ensure_node without its search loop: every request creates a node
ensure_node_no_search(f, name, size, type) ==
    [flat |-> Append(f, node_create(name, size, type)), h |-> Len(f) + 1]

\* ensure_node: the flat index after the call and the node returned
ensure_node(f, name, size, type) ==
    LET i == FindNode(f, name)
    IN  IF i # 0 THEN [flat |-> f, h |-> i]
        ELSE [flat |-> Append(f, node_create(name, size, type)), h |-> Len(f) + 1]

node_add_child(f, parent, child) ==
    [f EXCEPT ![child].parent = parent,
              ![parent].children = Append(@, child)]

-----------------------------------------------------------------------------
(* add_partition, add_apfs_volume, the body of collect_nodes' loop          *)
(* (src/mlsblk.c:304-402).  idref, content, mount, volname, voluuid are    *)
(* possibly-absent strings; sz is cfint(sizeref), 0 when Size is absent.   *)

add_partition(f, disk_node, idref, sz, content) ==
    IF IsNull(idref) THEN f
    ELSE LET e == ensure_node(f, Val(idref), sz, "part")
             f1 == [e.flat EXCEPT ![e.h].fstype = content_to_fstype(content)]
         IN  IF disk_node # 0 THEN node_add_child(f1, disk_node, e.h) ELSE f1

add_apfs_volume(f, container_node, idref, sz, mount, volname, voluuid) ==
    IF IsNull(idref) THEN f
    ELSE LET e == ensure_node(f, Val(idref), sz, "part")
             f1 == IF container_node # 0
                   THEN node_add_child(e.flat, container_node, e.h) ELSE e.flat
             f2 == IF ~IsNull(mount) /\ Val(mount) # ""
                   THEN [f1 EXCEPT ![e.h].mountpoint = Val(mount)] ELSE f1
             f3 == IF ~IsNull(volname) /\ Val(volname) # ""
                   THEN [f2 EXCEPT ![e.h].label = Val(volname)] ELSE f2
             f4 == IF ~IsNull(voluuid)
                   THEN [f3 EXCEPT ![e.h].uuid = Val(voluuid)] ELSE f3
         IN  [f4 EXCEPT ![e.h].fstype = "apfs"]

\* is_whole taking every top-level entry for a whole disk
is_whole_always(content) == TRUE

\* is_whole of collect_nodes
is_whole(content) ==
    /\ ~IsNull(content)
    /\ \/ strstr(Val(content), "GUID_partition_scheme")
       \/ strstr(Val(content), "Apple_APFS_Container")

\* One iteration of collect_nodes' loop up to the Partitions loop, with
\* parent == NULL (its only caller): the flat index, the roots and disk_node
\* (0 when the iteration ended with `continue`)
collect_entry(f, r, idref, sz, content) ==
    IF IsNull(idref) THEN [flat |-> f, roots |-> r, disk_node |-> 0]
    ELSE LET e == ensure_node(f, Val(idref), sz,
                              IF is_whole(content) THEN "disk" ELSE "part")
             f1 == IF ~IsNull(content)
                   THEN [e.flat EXCEPT ![e.h].fstype = content_to_fstype(content)]
                   ELSE e.flat
         IN  IF Len(r) >= ROOTS_CAP
             THEN [flat |-> f1, roots |-> r, disk_node |-> 0]
             ELSE [flat |-> f1, roots |-> Append(r, e.h), disk_node |-> e.h]

-----------------------------------------------------------------------------
(* Recursive walks over children.  A walk that starts at the nodes S and   *)
(* does not descend below the nodes of Stop reaches, at recursion depth k, *)
(* the nodes Frontier(f, S, Stop, k).  With Len(f) nodes, a non-empty      *)
(* frontier at depth Len(f) means the walk follows a cycle: the C          *)
(* recursion never returns and overflows the stack.                        *)

ChildSet(f, S) == UNION {{f[p].children[k] : k \in 1..Len(f[p].children)} : p \in S}

RECURSIVE Frontier(_, _, _, _)
Frontier(f, S, Stop, k) ==
    IF k = 0 \/ S = {} THEN S ELSE Frontier(f, ChildSet(f, S \ Stop), Stop, k - 1)

Diverges(f, S, Stop) == Frontier(f, S, Stop, Len(f)) # {}

Visited(f, S, Stop) == UNION {Frontier(f, S, Stop, k) : k \in 0..Len(f)}

SeqSet(s) == {s[k] : k \in 1..Len(s)}

-----------------------------------------------------------------------------
(* node_cmp, sort_children and the sorting half of build_tree               *)
(* (src/mlsblk.c:104-115, 412-415).  qsort leaves the order of elements    *)
(* that compare equal unspecified; here they keep their order.             *)

node_cmp(f, a, b) == name_cmp(f[a].name, f[b].name)

\* h put in front of the first element of s that it sorts strictly before
InsertSorted(f, s, h) ==
    LET after == {p \in 1..Len(s) : node_cmp(f, h, s[p]) < 0}
        at == IF after = {} THEN Len(s) + 1
              ELSE CHOOSE p \in after : \A q \in after : p <= q
    IN  SubSeq(s, 1, at - 1) \o <<h>> \o SubSeq(s, at, Len(s))

\* s[k] .. s[n] inserted one after the other into the sorted sequence acc
\* (the run is split in two halves, the second starting from the value the
\* first one ends with)
RECURSIVE InsertRun(_, _, _, _, _)
InsertRun(f, acc, s, k, n) ==
    IF k > n THEN acc
    ELSE IF k = n THEN InsertSorted(f, acc, s[k])
    ELSE LET mid == (k + n) \div 2
         IN  CHOOSE last \in {InsertRun(f, first, s, mid + 1, n) :
                                 first \in {InsertRun(f, acc, s, k, mid)}} : TRUE

qsort(f, s) == InsertRun(f, <<>>, s, 1, Len(s))

\* nodes on which sort_children returns at once
SortStops(f) == {h \in 1..Len(f) : Len(f[h].children) <= 1}

\* for (i < nroots) sort_children(roots[i]) never returns
SortDiverges(f, r) == Diverges(f, SeqSet(r), SortStops(f))

\* the flat index after sort_children on every root
sort_children(f, r) ==
    LET V == Visited(f, SeqSet(r), SortStops(f))
    IN  [h \in 1..Len(f) |->
            IF h \in V THEN [f[h] EXCEPT !.children = qsort(f, @)] ELSE f[h]]



-----------------------------------------------------------------------------
(* fill_mountpoints / set_mountpoint_recursive (src/mlsblk.c:221-248)       *)

\* One iteration of fill_mountpoints' loop over the mount table does not
\* return: some root's walk follows a cycle without meeting `name`
MountDiverges(f, r, name) ==
    Diverges(f, SeqSet(r), {h \in 1..Len(f) : f[h].name = name})

\* set_mountpoint_recursive(roots[r], name, target) for every root: every
\* node called `name` that a walk meets gets the target
set_mountpoints(f, r, name, target) ==
    LET stop == {h \in 1..Len(f) : f[h].name = name}
        V == Visited(f, SeqSet(r), stop)
    IN  [h \in 1..Len(f) |->
            IF h \in V /\ h \in stop THEN [f[h] EXCEPT !.mountpoint = target]
            ELSE f[h]]

-----------------------------------------------------------------------------
(* fill_info (src/mlsblk.c:251-281).  info is the lookup's record, NULL    *)
(* when get_info_plist failed; each of its fields is a possibly-absent     *)
(* string.                                                                 *)

\* fill_info taking MediaName whenever VolumeName gives no label, also when
\* the node has a label already
fill_info_media_overrides(n, info) ==
    IF IsNull(info) THEN n
    ELSE LET d == Val(info)
             n1 == IF ~IsNull(d.FilesystemType)
                   THEN [n EXCEPT !.fstype = Val(d.FilesystemType)] ELSE n
             n2 == IF ~IsNull(d.VolumeName) /\ Val(d.VolumeName) # ""
                   THEN [n1 EXCEPT !.label = Val(d.VolumeName)]
                   ELSE IF ~IsNull(d.MediaName) /\ Val(d.MediaName) # ""
                        THEN [n1 EXCEPT !.label = Val(d.MediaName)] ELSE n1
             v == IF ~IsNull(d.VolumeUUID) THEN d.VolumeUUID ELSE d.DiskUUID
             n4 == IF ~IsNull(v) THEN [n2 EXCEPT !.uuid = Val(v)] ELSE n2
         IN  IF ~IsNull(d.MountPoint) /\ Val(d.MountPoint) # ""
             THEN [n4 EXCEPT !.mountpoint = Val(d.MountPoint)] ELSE n4

\* fill_info keeping a mount point the node already has
fill_info_keep_mount(n, info) ==
    IF IsNull(info) THEN n
    ELSE LET d == Val(info)
             n1 == IF ~IsNull(d.FilesystemType)
                   THEN [n EXCEPT !.fstype = Val(d.FilesystemType)] ELSE n
             n2 == IF ~IsNull(d.VolumeName) /\ Val(d.VolumeName) # ""
                   THEN [n1 EXCEPT !.label = Val(d.VolumeName)] ELSE n1
             n3 == IF n2.label = "" /\ ~IsNull(d.MediaName) /\ Val(d.MediaName) # ""
                   THEN [n2 EXCEPT !.label = Val(d.MediaName)] ELSE n2
             v == IF ~IsNull(d.VolumeUUID) THEN d.VolumeUUID ELSE d.DiskUUID
             n4 == IF ~IsNull(v) THEN [n3 EXCEPT !.uuid = Val(v)] ELSE n3
         IN  IF n4.mountpoint = "" /\ ~IsNull(d.MountPoint) /\ Val(d.MountPoint) # ""
             THEN [n4 EXCEPT !.mountpoint = Val(d.MountPoint)] ELSE n4

fill_info(n, info) ==
    IF IsNull(info) THEN n
    ELSE LET d == Val(info)
             n1 == IF ~IsNull(d.FilesystemType)
                   THEN [n EXCEPT !.fstype = Val(d.FilesystemType)] ELSE n
             n2 == IF ~IsNull(d.VolumeName) /\ Val(d.VolumeName) # ""
                   THEN [n1 EXCEPT !.label = Val(d.VolumeName)] ELSE n1
             n3 == IF n2.label = "" /\ ~IsNull(d.MediaName) /\ Val(d.MediaName) # ""
                   THEN [n2 EXCEPT !.label = Val(d.MediaName)] ELSE n2
             v == IF ~IsNull(d.VolumeUUID) THEN d.VolumeUUID ELSE d.DiskUUID
             n4 == IF ~IsNull(v) THEN [n3 EXCEPT !.uuid = Val(v)] ELSE n3
         IN  IF ~IsNull(d.MountPoint) /\ Val(d.MountPoint) # ""
             THEN [n4 EXCEPT !.mountpoint = Val(d.MountPoint)] ELSE n4

-----------------------------------------------------------------------------
(* Columns (src/mlsblk.c:419-446).  A column is its index in enum Col.      *)

col_names == <<"NAME", "SIZE", "TYPE", "MOUNTPOINT", "FSTYPE", "LABEL", "UUID">>
COL_NAME == 0
COL_SIZE == 1
COL_TYPE == 2
COL_MOUNTPOINT == 3
COL_FSTYPE == 4
COL_LABEL == 5
COL_UUID == 6
COL_MAX == 7
DEFAULT_COLS == "NAME,SIZE,TYPE,MOUNTPOINT"
FULL_COLS == "NAME,SIZE,TYPE,FSTYPE,MOUNTPOINT,LABEL,UUID"

\* toupper(c)
ToUpper(c) == IF IndexIn(Lower, c) > 0 THEN SubSeq(Upper, IndexIn(Lower, c), IndexIn(Lower, c)) ELSE c

\* strcasecmp(a, b) == 0
RECURSIVE strcaseeq(_, _)
strcaseeq(a, b) ==
    IF Len(a) # Len(b) THEN FALSE
    ELSE IF a = "" THEN TRUE
    ELSE /\ ToUpper(CharAt(a, 1)) = ToUpper(CharAt(b, 1))
         /\ strcaseeq(SubSeq(a, 2, Len(a)), SubSeq(b, 2, Len(b)))

\* strtok(s, ","): the non-empty pieces between commas, in order
RECURSIVE strtok(_, _)
strtok(s, acc) ==
    IF s = "" THEN (IF acc = "" THEN <<>> ELSE <<acc>>)
    ELSE IF CharAt(s, 1) = ","
         THEN (IF acc = "" THEN <<>> ELSE <<acc>>) \o strtok(SubSeq(s, 2, Len(s)), "")
         ELSE strtok(SubSeq(s, 2, Len(s)), acc \o CharAt(s, 1))

\* while (*tok == ' ') tok++
RECURSIVE SkipSpaces(_)
SkipSpaces(t) == IF CharAt(t, 1) = " " THEN SkipSpaces(SubSeq(t, 2, Len(t))) ELSE t

\* the column a token names, COL_MAX when it names none
ColOf(tok) ==
    IF \E c \in 1..COL_MAX : strcaseeq(SkipSpaces(tok), col_names[c])
    THEN (CHOOSE c \in 1..COL_MAX : strcaseeq(SkipSpaces(tok), col_names[c])) - 1
    ELSE COL_MAX

\* parse_columns: rc and the columns read (those read before a failure stay)
RECURSIVE ParseToks(_, _)
ParseToks(toks, acc) ==
    IF toks = <<>> THEN [rc |-> 0, cols |-> acc]
    ELSE IF ColOf(Head(toks)) = COL_MAX THEN ParseToks(Tail(toks), acc)
    ELSE IF Len(acc) >= COLS_CAP THEN [rc |-> -1, cols |-> acc]
    ELSE ParseToks(Tail(toks), Append(acc, ColOf(Head(toks))))

parse_columns(ostr) == ParseToks(strtok(ostr, ""), <<>>)

parse_output_option(ostr) ==
    IF IsNull(ostr) \/ Val(ostr) = "" THEN parse_columns(DEFAULT_COLS)
    ELSE parse_columns(Val(ostr))

-----------------------------------------------------------------------------
(* fmt_size (src/mlsblk.c:118-124): "%.1f%c" of bytes / 1024^u.  The       *)
(* division by a power of two is exact, and printf rounds the exact value  *)
(* to the nearest tenth, ties to even.                                     *)

units == "BKMGTP"

\* u after the while loop, den = 1024^u
RECURSIVE SizeUnit(_, _, _)
SizeUnit(bytes, u, den) ==
    IF bytes >= KIB * den /\ u < 5 THEN SizeUnit(bytes, u + 1, den * KIB)
    ELSE [u |-> u, den |-> den]

\* decimal digits of a natural number
RECURSIVE ToStr(_)
ToStr(n) ==
    IF n < 10 THEN SubSeq(Digits, n + 1, n + 1)
    ELSE ToStr(n \div 10) \o SubSeq(Digits, (n % 10) + 1, (n % 10) + 1)

\* the identifiers diskM and diskXsP
DiskName(m) == "disk" \o ToStr(m)
SliceName(x, p) == "disk" \o ToStr(x) \o "s" \o ToStr(p)

fmt_size(bytes) ==
    LET s == SizeUnit(bytes, 0, 1)
        q == (bytes * 10) \div s.den
        r == (bytes * 10) % s.den
        tenths == IF 2 * r > s.den THEN q + 1
                  ELSE IF 2 * r = s.den THEN q + (q % 2)
                  ELSE q
    IN  ToStr(tenths \div 10) \o "." \o ToStr(tenths % 10)
        \o SubSeq(units, s.u + 1, s.u + 1)

-----------------------------------------------------------------------------
(* Renderers (src/mlsblk.c:448-526, 583-611).  A row is one printed line:  *)
(* its kind, the prefix and connector the tree printer puts before the     *)
(* name, and the strings printed one after the other, a space between.     *)
(* "|" stands for the vertical box-drawing glyph of the prefix.            *)

\* the switch on cols[c] of the printers
Cell(n, col) ==
    CASE col = COL_NAME -> n.name
      [] col = COL_SIZE -> fmt_size(n.size)
      [] col = COL_TYPE -> n.type
      [] col = COL_MOUNTPOINT -> n.mountpoint
      [] col = COL_FSTYPE -> n.fstype
      [] col = COL_LABEL -> n.label
      [] col = COL_UUID -> n.uuid
      [] OTHER -> ""

\* the header line: every column's name
HeaderRow(cs) ==
    [kind |-> "header", prefix |-> "", last |-> FALSE,
     cells |-> [c \in 1..Len(cs) |-> col_names[cs[c] + 1]]]

\* for (c = 1; c < ncols; c++) of the tree printer, after the name
RECURSIVE TreeCells(_, _, _)
TreeCells(n, cs, c) ==
    IF c > Len(cs) THEN <<>>
    ELSE (IF cs[c] = COL_NAME THEN <<>> ELSE <<Cell(n, cs[c])>>)
         \o TreeCells(n, cs, c + 1)

RECURSIVE print_tree(_, _, _, _, _)
RECURSIVE PrintChildren(_, _, _, _, _, _)
\* the for loop of print_tree from child i on
PrintChildren(f, h, cs, prefix, child_prefix, i) ==
    IF i > Len(f[h].children) THEN <<>>
    ELSE LET ch == f[h].children[i]
             is_last == (i = Len(f[h].children))
         IN  <<[kind |-> "child", prefix |-> prefix, last |-> is_last,
                cells |-> <<f[ch].name>> \o TreeCells(f[ch], cs, 2)]>>
             \o print_tree(f, ch, cs, child_prefix, is_last)
             \o PrintChildren(f, h, cs, prefix, child_prefix, i + 1)

print_tree(f, h, cs, prefix, last) ==
    PrintChildren(f, h, cs, prefix,
                  prefix \o (IF last THEN " " ELSE "|") \o "  ", 1)

\* main's tree branch from root i on
RECURSIVE TreeRoots(_, _, _, _)
TreeRoots(f, r, cs, i) ==
    IF i > Len(r) THEN <<>>
    ELSE <<[kind |-> "root", prefix |-> "", last |-> FALSE,
            cells |-> <<f[r[i]].name>> \o TreeCells(f[r[i]], cs, 2)]>>
         \o print_tree(f, r[i], cs, "  ",
                       i = Len(r) /\ Len(f[r[i]].children) = 0)
         \o TreeRoots(f, r, cs, i + 1)

print_tree_main(f, r, cs) == <<HeaderRow(cs)>> \o TreeRoots(f, r, cs, 1)

\* the nodes in the order a depth-first walk from the roots meets them
RECURSIVE Preorder(_, _)
Preorder(f, s) ==
    IF s = <<>> THEN <<>>
    ELSE <<Head(s)>> \o Preorder(f, f[Head(s)].children) \o Preorder(f, Tail(s))

print_list(f, r, cs) ==
    LET order == Preorder(f, r)
    IN  <<HeaderRow(cs)>>
        \o [k \in 1..Len(order) |->
              [kind |-> "list", prefix |-> "", last |-> FALSE,
               cells |-> [c \in 1..Len(cs) |-> Cell(f[order[k]], cs[c])]]]

\* print_json: the opening line, one object per node in the order emit_json
\* writes them (last: the object has a "children" array), the closing line
print_json(f, r) ==
    LET order == Preorder(f, r)
    IN  <<[kind |-> "json_open", prefix |-> "", last |-> FALSE, cells |-> <<>>]>>
        \o [k \in 1..Len(order) |->
              LET n == f[order[k]]
              IN  [kind |-> "json", prefix |-> "", last |-> Len(n.children) > 0,
                   cells |-> <<n.name, ToStr(n.size), n.type, n.mountpoint,
                               n.fstype, n.label, n.uuid>>]]
        \o <<[kind |-> "json_close", prefix |-> "", last |-> FALSE, cells |-> <<>>]>>

\* a printer walks into a cycle: it prints without end until the stack overflows
RenderDiverges(f, r) == Diverges(f, SeqSet(r), {})

-----------------------------------------------------------------------------
(* node_free over the roots (src/mlsblk.c:55-67, 613-616): how many times  *)
(* each node is handed to free()                                           *)

Count(s, x) == Cardinality({k \in 1..Len(s) : s[k] = x})

node_free_roots(f, r) ==
    LET order == Preorder(f, r)
    IN  [h \in 1..Len(f) |-> Count(order, h)]

-----------------------------------------------------------------------------
(* Inputs: what the command line, the listing, the mount table and the     *)
(* lookups may hold                                                        *)

Ids == {"disk0", "disk0s1", "disk1"}
IdRefs == {None} \cup {Some(i) : i \in Ids}

\* top-level entries: DeviceIdentifier, Size, Content
TopEntries ==
    [id : {None, Some("disk0"), Some("disk1")}, size : {2},
     content : {None, Some("GUID_partition_scheme"), Some("Apple_APFS_Container"),
                Some("Apple_HFS")}]

\* Partitions entries: DeviceIdentifier, Size, Content
PartEntries == [id : IdRefs, size : {1}, content : {None, Some("EFI")}]

\* APFSVolumes entries: DeviceIdentifier, Size, MountPoint, VolumeName, VolumeUUID
VolEntries ==
    [id : IdRefs, size : {1}, mount : {None}, volname : {None}, voluuid : {None}]
    \cup [id : IdRefs, size : {0}, mount : {Some("")}, volname : {Some("")},
          voluuid : {None}]
    \cup [id : IdRefs, size : {1}, mount : {Some("/")}, volname : {Some("Data")},
          voluuid : {Some("U1")}]

\* the listings of the runs that go on to mount resolution and enrichment
SmallTop ==
    {[id |-> Some("disk0"), size |-> 2, content |-> Some("GUID_partition_scheme")],
     [id |-> Some("disk1"), size |-> 2, content |-> Some("Apple_APFS_Container")]}
SmallParts == {[id |-> Some("disk0s1"), size |-> 1, content |-> Some("EFI")]}
SmallVols ==
    {[id |-> Some("disk1s1"), size |-> 1, mount |-> Some("/"),
      volname |-> Some("Data"), voluuid |-> Some("U1")]}

ListingKinds == {"unavailable", "notdict", "nokey", "notarray", "ok"}

\* getmntinfo entries: f_mntfromname, f_mntonname
MountEntries ==
    {[from |-> "/dev/disk0s1", target |-> "/Volumes/Old"],
     [from |-> "/dev/disk1s1", target |-> "/Volumes/Old"],
     [from |-> "devfs", target |-> "/dev"]}

\* diskutil info -plist results: NULL, or the record's six keys
InfoRecords ==
    {[FilesystemType |-> None, VolumeName |-> None, MediaName |-> None,
      VolumeUUID |-> None, DiskUUID |-> None, MountPoint |-> None],
     [FilesystemType |-> Some("apfs"), VolumeName |-> Some("Vol"), MediaName |-> None,
      VolumeUUID |-> Some("V"), DiskUUID |-> Some("D"),
      MountPoint |-> Some("/Volumes/New")],
     [FilesystemType |-> Some(""), VolumeName |-> Some(""), MediaName |-> Some("Media"),
      VolumeUUID |-> None, DiskUUID |-> Some("D"), MountPoint |-> Some("")]}
InfoResults == {None} \cup {Some(d) : d \in InfoRecords}

\* what the process may end with once teardown has freed freed memory
UndefinedExits == {0, 134}

NoReq == [id |-> "", existed |-> FALSE, h |-> 0]
NoCall == [name |-> "", args |-> <<>>, done |-> FALSE, ret |-> <<>>]

\* the request ensure_node(f, id, ..) serves: the identifier, whether the
\* flat index held it already, and the node returned
Req(f, idref) ==
    IF IsNull(idref) THEN NoReq
    ELSE [id |-> Val(idref),
          existed |-> \E i \in 1..Len(f) : f[i].name = Val(idref),
          h |-> ensure_node(f, Val(idref), 0, "part").h]

\* hist.made after a step from flat index f to f2: the entry that created
\* each node (top-level, partition or volume entry, and its Content)
Made(f, f2, by, content) ==
    IF Len(f2) > Len(f)
    THEN hist.made \o [k \in 1..(Len(f2) - Len(f)) |-> [by |-> by, content |-> content]]
    ELSE hist.made

Seen(idref) == IF IsNull(idref) THEN hist.seen ELSE hist.seen \cup {Val(idref)}

-----------------------------------------------------------------------------
(* main (src/mlsblk.c:528-617), build_tree (405-417) and the loops they run *)

Init ==
    /\ pc = "start"
    /\ status = -1
    /\ errs = <<>>
    /\ out = <<>>
    /\ opt_f = FALSE
    /\ opt_J = FALSE
    /\ opt_list = FALSE
    /\ opt_o = None
    /\ cols = <<>>
    /\ list_plist = "unset"
    /\ flat = <<>>
    /\ roots = <<>>
    /\ cur = 0
    /\ nent = 0
    /\ invols = FALSE
    /\ nmounts = 0
    /\ ei = 0
    /\ freed = <<>>
    /\ hist = [req |-> NoReq, seen |-> {}, made |-> <<>>, pre |-> <<>>,
               info |-> <<>>, phases |-> {}]
    /\ fn = NoCall

\* the getopt loop and the column list (src/mlsblk.c:534-558)
ParseArgs(f, J, l, o) ==
    /\ pc = "start"
    /\ opt_f' = f /\ opt_J' = J /\ opt_list' = l /\ opt_o' = o
    /\ LET p == parse_output_option(o)
       IN  IF p.rc # 0
           THEN /\ errs' = Append(errs, "mlsblk: invalid -o columns")
                /\ status' = 1
                /\ pc' = "done"
                /\ cols' = p.cols
           ELSE /\ cols' = IF f /\ IsNull(o) THEN parse_columns(FULL_COLS).cols
                           ELSE p.cols
                /\ pc' = "getlist"
                /\ UNCHANGED <<errs, status>>
    /\ UNCHANGED <<out, list_plist, flat, roots, cur, nent, invols, nmounts, ei,
                   freed, hist, fn>>

\* the getopt loop meeting an unknown option: the usage text, return 1
UsageError ==
    /\ pc = "start"
    /\ errs' = Append(errs, "Usage: mlsblk [-f] [-o COL1,COL2] [-J] [-l]")
    /\ status' = 1
    /\ pc' = "done"
    /\ UNCHANGED <<out, opt_f, opt_J, opt_list, opt_o, cols, list_plist, flat, roots,
                   cur, nent, invols, nmounts, ei, freed, hist, fn, fn>>

\* get_list_plist() and main's test of its result (src/mlsblk.c:126-155, 560-564)
GetListPlist(kind) ==
    /\ pc = "getlist"
    /\ list_plist' = IF kind \in {"unavailable", "notdict"} THEN "NULL" ELSE kind
    /\ IF kind \in {"unavailable", "notdict"}
       THEN /\ errs' = Append(errs, "mlsblk: failed to run diskutil list -plist")
            /\ status' = 1
            /\ pc' = "done"
       ELSE /\ pc' = "build_tree"
            /\ UNCHANGED <<errs, status>>
    /\ UNCHANGED <<out, opt_f, opt_J, opt_list, opt_o, cols, flat, roots, cur, nent,
                   invols, nmounts, ei, freed, hist, fn>>

\* build_tree without its test of AllDisksAndPartitions
BuildTreeBeginUnchecked ==
    /\ pc = "build_tree"
    /\ flat' = <<>>
    /\ roots' = <<>>
    /\ pc' = "collect"
    /\ UNCHANGED <<status, errs, out, opt_f, opt_J, opt_list, opt_o, cols, list_plist,
                   cur, nent, invols, nmounts, ei, freed, hist, fn>>

\* build_tree up to its call of collect_nodes, and main's test of its result
\* (src/mlsblk.c:405-411, 569-573)
BuildTreeBegin ==
    /\ pc = "build_tree"
    /\ IF list_plist # "ok"
       THEN /\ errs' = Append(errs, "mlsblk: failed to parse disk list")
            /\ status' = 1
            /\ pc' = "done"
            /\ UNCHANGED <<flat, roots>>
       ELSE /\ flat' = <<>>
            /\ roots' = <<>>
            /\ pc' = "collect"
            /\ UNCHANGED <<errs, status>>
    /\ UNCHANGED <<out, opt_f, opt_J, opt_list, opt_o, cols, list_plist, cur, nent,
                   invols, nmounts, ei, freed, hist, fn>>

\* one iteration of collect_nodes' loop, up to its Partitions loop
CollectEntry(e) ==
    /\ pc = "collect"
    /\ nent < MaxEntries
    /\ LET c == collect_entry(flat, roots, e.id, e.size, e.content)
       IN  /\ flat' = c.flat
           /\ roots' = c.roots
           /\ cur' = c.disk_node
           /\ hist' = [hist EXCEPT
                         !.req = Req(flat, e.id),
                         !.seen = Seen(e.id),
                         !.made = Made(flat, c.flat, "top", e.content)]
    /\ nent' = nent + 1
    /\ invols' = FALSE
    /\ UNCHANGED <<pc, status, errs, out, opt_f, opt_J, opt_list, opt_o, cols,
                   list_plist, nmounts, ei, freed, fn>>

\* the whole-disk entry disk<9+k> without Partitions or APFSVolumes
FillerEntry(k) ==
    [id |-> Some(DiskName(9 + k)), size |-> 2, content |-> Some("GUID_partition_scheme")]

\* collect_nodes' loop over the entries FillerEntry(k) .. FillerEntry(n)
\* (the run is split in two halves, the second starting from the value the
\* first one ends with)
RECURSIVE CollectFold(_, _, _)
CollectFold(c, k, n) ==
    IF k > n THEN c
    ELSE IF k = n
         THEN collect_entry(c.flat, c.roots, FillerEntry(k).id,
                            FillerEntry(k).size, FillerEntry(k).content)
         ELSE LET mid == (k + n) \div 2
              IN  CHOOSE last \in {CollectFold(first, mid + 1, n) :
                                      first \in {CollectFold(c, k, mid)}} : TRUE

\* n iterations of collect_nodes' loop in one step: a listing that begins
\* with the n whole disks FillerEntry(1) .. FillerEntry(n) and goes on with
\* one more entry
CollectRun(n) ==
    /\ pc = "collect"
    /\ nent = 0
    /\ LET c == CollectFold([flat |-> flat, roots |-> roots, disk_node |-> 0], 1, n)
       IN  /\ flat' = c.flat
           /\ roots' = c.roots
           /\ cur' = c.disk_node
           /\ hist' = [hist EXCEPT
                         !.req = Req(flat, FillerEntry(n).id),
                         !.seen = @ \cup {Val(FillerEntry(k).id) : k \in 1..n},
                         !.made = Made(flat, c.flat, "top", FillerEntry(n).content)]
    /\ nent' = MaxEntries - 1
    /\ invols' = FALSE
    /\ UNCHANGED <<pc, status, errs, out, opt_f, opt_J, opt_list, opt_o, cols,
                   list_plist, nmounts, ei, freed, fn>>

\* one iteration of the Partitions loop
AddPartition(e) ==
    /\ pc = "collect"
    /\ cur # 0
    /\ ~invols
    /\ nent < MaxEntries
    /\ flat' = add_partition(flat, cur, e.id, e.size, e.content)
    /\ nent' = nent + 1
    /\ hist' = [hist EXCEPT !.req = Req(flat, e.id), !.seen = Seen(e.id),
                            !.made = Made(flat, flat', "part", e.content)]
    /\ UNCHANGED <<pc, status, errs, out, opt_f, opt_J, opt_list, opt_o, cols,
                   list_plist, roots, cur, invols, nmounts, ei, freed, fn>>

\* one iteration of the APFSVolumes loop
AddApfsVolume(e) ==
    /\ pc = "collect"
    /\ cur # 0
    /\ nent < MaxEntries
    /\ flat' = add_apfs_volume(flat, cur, e.id, e.size, e.mount, e.volname, e.voluuid)
    /\ nent' = nent + 1
    /\ invols' = TRUE
    /\ hist' = [hist EXCEPT !.req = Req(flat, e.id), !.seen = Seen(e.id),
                            !.made = Made(flat, flat', "vol", None)]
    /\ UNCHANGED <<pc, status, errs, out, opt_f, opt_J, opt_list, opt_o, cols,
                   list_plist, roots, cur, nmounts, ei, freed, fn>>

\* the end of the listing: build_tree sorts and returns 0, main goes on to
\* fill_mountpoints.  A cycle under nodes with several children never lets
\* sort_children return: the stack overflows.
BuildTreeEnd ==
    /\ pc = "collect"
    /\ IF SortDiverges(flat, roots)
       THEN /\ pc' = "crashed"
            /\ status' = 139
            /\ UNCHANGED <<flat, roots>>
            /\ hist' = [hist EXCEPT !.req = NoReq]
       ELSE /\ flat' = sort_children(flat, roots)
            /\ roots' = qsort(flat, roots)
            /\ pc' = "mount"
            /\ hist' = [hist EXCEPT !.req = NoReq, !.phases = @ \cup {"mount"}]
            /\ UNCHANGED status
    /\ cur' = 0
    /\ UNCHANGED <<errs, out, opt_f, opt_J, opt_list, opt_o, cols, list_plist, nent,
                   invols, nmounts, ei, freed, fn>>

\* one iteration of fill_mountpoints' loop over the mount table
FillMountEntry(m) ==
    /\ pc = "mount"
    /\ nmounts < MaxMounts
    /\ nmounts' = nmounts + 1
    /\ IF ~HasPrefix(m.from, "/dev/")
       THEN UNCHANGED <<pc, status, flat>>
       ELSE LET name == SubSeq(m.from, 6, Len(m.from))
            IN  IF MountDiverges(flat, roots, name)
                THEN /\ pc' = "crashed"
                     /\ status' = 139
                     /\ UNCHANGED flat
                ELSE /\ flat' = set_mountpoints(flat, roots, name, m.target)
                     /\ UNCHANGED <<pc, status>>
    /\ UNCHANGED <<errs, out, opt_f, opt_J, opt_list, opt_o, cols, list_plist, roots,
                   cur, nent, invols, ei, freed, hist, fn>>

\* fill_mountpoints returns (also at once, when getmntinfo gives nothing);
\* main enters the enrichment loop under -f (src/mlsblk.c:576-581)
FillMountEnd ==
    /\ pc = "mount"
    /\ IF opt_f /\ Len(flat) > 0
       THEN /\ pc' = "enrich"
            /\ hist' = [hist EXCEPT !.pre = flat, !.phases = @ \cup {"enrich"}]
       ELSE /\ pc' = "render"
            /\ hist' = [hist EXCEPT !.pre = flat]
    /\ ei' = 0
    /\ UNCHANGED <<status, errs, out, opt_f, opt_J, opt_list, opt_o, cols, list_plist,
                   flat, roots, cur, nent, invols, nmounts, freed, fn>>

\* one iteration of main's enrichment loop: fill_info(flat.arr[i])
FillInfo(info) ==
    /\ pc = "enrich"
    /\ ei < Len(flat)
    /\ flat' = [flat EXCEPT ![ei + 1] = fill_info(@, info)]
    /\ ei' = ei + 1
    /\ pc' = IF ei + 1 < Len(flat) THEN "enrich" ELSE "render"
    /\ hist' = [hist EXCEPT !.info = Append(@, info)]
    /\ UNCHANGED <<status, errs, out, opt_f, opt_J, opt_list, opt_o, cols, list_plist,
                   roots, cur, nent, invols, nmounts, freed, fn>>

\* the renderer -J / -l select (src/mlsblk.c:583-611).  A cycle below a
\* root is printed without end, until the stack overflows.
Render ==
    /\ pc = "render"
    /\ hist' = [hist EXCEPT !.phases = @ \cup {"render"}]
    /\ IF RenderDiverges(flat, roots)
       THEN /\ pc' = "crashed"
            /\ status' = 139
            /\ out' = <<[kind |-> "endless", prefix |-> "", last |-> FALSE,
                         cells |-> <<>>]>>
       ELSE /\ out' = IF opt_J THEN print_json(flat, roots)
                      ELSE IF opt_list THEN print_list(flat, roots, cols)
                      ELSE print_tree_main(flat, roots, cols)
            /\ pc' = "teardown"
            /\ UNCHANGED status
    /\ UNCHANGED <<errs, opt_f, opt_J, opt_list, opt_o, cols, list_plist, flat, roots,
                   cur, nent, invols, nmounts, ei, freed, fn>>

\* node_free(roots[i]) for every root, free(flat.arr), return 0
\* (src/mlsblk.c:613-617).  Freeing a node a second time is undefined
\* behaviour: the allocator may abort the process, or the run may end as
\* if nothing had happened.
Teardown(x) ==
    /\ pc = "teardown"
    /\ freed' = node_free_roots(flat, roots)
    /\ status' = IF \E h \in 1..Len(flat) : freed'[h] > 1 THEN x ELSE 0
    /\ pc' = IF status' = 0 THEN "done" ELSE "crashed"
    /\ hist' = [hist EXCEPT !.phases = @ \cup {"teardown"}]
    /\ UNCHANGED <<errs, out, opt_f, opt_J, opt_list, opt_o, cols, list_plist, flat,
                   roots, cur, nent, invols, nmounts, ei, fn>>

-----------------------------------------------------------------------------
(* Specifications *)

\* Runs with any options, a listing of the devices of SmallTop, SmallParts
\* and SmallVols, a mount table and lookups
Next ==
    \/ \E f \in BOOLEAN, J \in BOOLEAN, l \in BOOLEAN : ParseArgs(f, J, l, None)
    \/ UsageError
    \/ \E kind \in ListingKinds : GetListPlist(kind)
    \/ BuildTreeBegin
    \/ \E e \in SmallTop : CollectEntry(e)
    \/ \E e \in SmallParts : AddPartition(e)
    \/ \E e \in SmallVols : AddApfsVolume(e)
    \/ BuildTreeEnd
    \/ \E m \in MountEntries : FillMountEntry(m)
    \/ FillMountEnd
    \/ \E info \in InfoResults : FillInfo(info)
    \/ Render
    \/ \E x \in UndefinedExits : Teardown(x)

Spec == Init /\ [][Next]_vars

\* Runs without options and with an empty mount table, over every listing
\* of TopEntries, PartEntries and VolEntries, also behind ROOTS_CAP whole
\* disks that fill the root array
NextBuild ==
    \/ ParseArgs(FALSE, FALSE, FALSE, None)
    \/ GetListPlist("ok")
    \/ BuildTreeBegin
    \/ CollectRun(ROOTS_CAP)
    \/ \E e \in TopEntries : CollectEntry(e)
    \/ \E e \in PartEntries : AddPartition(e)
    \/ \E e \in VolEntries : AddApfsVolume(e)
    \/ BuildTreeEnd
    \/ FillMountEnd
    \/ Render
    \/ \E x \in UndefinedExits : Teardown(x)

SpecBuild == Init /\ [][NextBuild]_vars

\* The arguments of -o: up to MaxCols pieces separated by commas, a piece
\* being a column name in either case, with or without a leading space, or
\* a word that names no column
ColTokens == {"NAME", "SIZE", " mountpoint", "BOGUS"}

RECURSIVE JoinCommas(_)
JoinCommas(ts) ==
    IF Len(ts) = 1 THEN ts[1] ELSE ts[1] \o "," \o JoinCommas(Tail(ts))

OutputOptions ==
    {None} \cup {Some(JoinCommas(ts)) : ts \in UNION {[1..k -> ColTokens] : k \in 1..MaxCols}}

\* Runs that print the tree (no -f, -J or -l) for every -o of OutputOptions
NextTree ==
    \/ \E o \in OutputOptions : ParseArgs(FALSE, FALSE, FALSE, o)
    \/ GetListPlist("ok")
    \/ BuildTreeBegin
    \/ \E e \in SmallTop : CollectEntry(e)
    \/ \E e \in SmallParts : AddPartition(e)
    \/ \E e \in SmallVols : AddApfsVolume(e)
    \/ BuildTreeEnd
    \/ \E m \in MountEntries : FillMountEntry(m)
    \/ FillMountEnd
    \/ Render
    \/ \E x \in UndefinedExits : Teardown(x)

SpecTree == Init /\ [][NextTree]_vars


-----------------------------------------------------------------------------
(* name_cmp on its own: every pair of identifiers diskM, disk2sP *)

SLICE_DISK == 2
\* an identifier: a whole disk (slice = -1) or a slice of disk SLICE_DISK
CmpIds == [disk : 0..MaxNum, slice : {-1}] \cup [disk : {SLICE_DISK}, slice : 0..MaxNum]
IdName(x) == IF x.slice < 0 THEN DiskName(x.disk) ELSE SliceName(x.disk, x.slice)

InitCmp ==
    /\ pc = "start" /\ status = -1 /\ errs = <<>> /\ out = <<>>
    /\ opt_f = FALSE /\ opt_J = FALSE /\ opt_list = FALSE /\ opt_o = None
    /\ cols = <<>> /\ list_plist = "unset" /\ flat = <<>> /\ roots = <<>>
    /\ cur = 0 /\ nent = 0 /\ invols = FALSE /\ nmounts = 0 /\ ei = 0
    /\ freed = <<>>
    /\ hist = [req |-> NoReq, seen |-> {}, made |-> <<>>, pre |-> <<>>,
               info |-> <<>>, phases |-> {}]
    /\ \E a \in CmpIds, b \in CmpIds :
          fn = [name |-> "name_cmp", args |-> <<a, b>>, done |-> FALSE, ret |-> <<>>]

\* node_cmp(a, b) for two nodes named after the identifiers
CallNameCmp ==
    /\ fn.name = "name_cmp"
    /\ ~fn.done
    /\ fn' = [fn EXCEPT !.done = TRUE,
                        !.ret = name_cmp(IdName(fn.args[1]), IdName(fn.args[2]))]
    /\ UNCHANGED <<pc, status, errs, out, opt_f, opt_J, opt_list, opt_o, cols,
                   list_plist, flat, roots, cur, nent, invols, nmounts, ei, freed, hist>>

SpecCmp == InitCmp /\ [][CallNameCmp]_vars

-----------------------------------------------------------------------------
(* content_to_fstype on its own: content descriptions put together from    *)
(* the markers the function looks for and from other text                  *)

FsTokens ==
    {"Apple_", "APFS", "HFS", "EFI", "GUID_partition_scheme", "_Container",
     "41504653", "C12A7328", "Microsoft Basic Data"}

RECURSIVE Concat(_)
Concat(ts) == IF ts = <<>> THEN "" ELSE Head(ts) \o Concat(Tail(ts))

Contents ==
    {None} \cup {Some(Concat(ts)) : ts \in UNION {[1..k -> FsTokens] : k \in 0..MaxTokens}}

InitFstype ==
    /\ pc = "start" /\ status = -1 /\ errs = <<>> /\ out = <<>>
    /\ opt_f = FALSE /\ opt_J = FALSE /\ opt_list = FALSE /\ opt_o = None
    /\ cols = <<>> /\ list_plist = "unset" /\ flat = <<>> /\ roots = <<>>
    /\ cur = 0 /\ nent = 0 /\ invols = FALSE /\ nmounts = 0 /\ ei = 0
    /\ freed = <<>>
    /\ hist = [req |-> NoReq, seen |-> {}, made |-> <<>>, pre |-> <<>>,
               info |-> <<>>, phases |-> {}]
    /\ \E c \in Contents :
          fn = [name |-> "content_to_fstype", args |-> <<c>>, done |-> FALSE,
                ret |-> <<>>]

CallContentToFstype ==
    /\ fn.name = "content_to_fstype"
    /\ ~fn.done
    /\ fn' = [fn EXCEPT !.done = TRUE, !.ret = content_to_fstype(fn.args[1])]
    /\ UNCHANGED <<pc, status, errs, out, opt_f, opt_J, opt_list, opt_o, cols,
                   list_plist, flat, roots, cur, nent, invols, nmounts, ei, freed, hist>>

SpecFstype == InitFstype /\ [][CallContentToFstype]_vars


-----------------------------------------------------------------------------
(* Properties *)

Compared == fn.name = "name_cmp" /\ fn.done

\* C3: name_cmp orders identifiers by the numeric value of their digit runs:
\* diskM sorts strictly before diskN whenever M < N, diskXsP strictly before
\* diskXsQ whenever P < Q, and two distinct identifiers never compare equal.
C3_NumericOrder ==
    Compared =>
        LET a == fn.args[1]
            b == fn.args[2]
        IN  /\ (a.slice < 0 /\ b.slice < 0 /\ a.disk < b.disk) => fn.ret < 0
            /\ (a.slice >= 0 /\ b.slice >= 0 /\ a.disk = b.disk /\ a.slice < b.slice)
                    => fn.ret < 0
            /\ (a # b) => fn.ret # 0
            /\ (a = b) => fn.ret = 0

\* the part of C3 that the code keeps: numbers below 100 are ordered
C3_Below100 ==
    (Compared /\ \A k \in 1..2 : fn.args[k].disk < 100 /\ fn.args[k].slice < 100)
        => C3_NumericOrder


Mapped == fn.name = "content_to_fstype" /\ fn.done
HasApfs(c) == strstr(c, "APFS") \/ strstr(c, "41504653")
HasHfs(c) == strstr(c, "HFS")
HasEfi(c) == strstr(c, "EFI") \/ strstr(c, "C12A7328")
HasContainerMarker(c) ==
    strstr(c, "GUID_partition_scheme") \/ strstr(c, "Apple_APFS_Container")

\* C10 as stated: a content description carrying GUID_partition_scheme or
\* Apple_APFS_Container yields an empty fstype, also when it contains APFS,
\* HFS or EFI; only one without such a marker yields apfs / hfs / vfat, and
\* anything else is passed through, cut to 31 characters.
C10_MarkersFirst ==
    (Mapped /\ ~IsNull(fn.args[1])) =>
        LET c == Val(fn.args[1])
        IN  /\ HasContainerMarker(c) => fn.ret = ""
            /\ (~HasContainerMarker(c) /\ HasApfs(c)) => fn.ret = "apfs"
            /\ (~HasContainerMarker(c) /\ ~HasApfs(c) /\ HasHfs(c)) => fn.ret = "hfs"
            /\ (~HasContainerMarker(c) /\ ~HasApfs(c) /\ ~HasHfs(c) /\ HasEfi(c))
                    => fn.ret = "vfat"
            /\ (~HasContainerMarker(c) /\ ~HasApfs(c) /\ ~HasHfs(c) /\ ~HasEfi(c))
                    => (fn.ret = Truncate(c, FSTYPE_KEEP) /\ Len(fn.ret) <= FSTYPE_KEEP)

\* C10 as amended: the filesystem signatures are tested first, in the order
\* APFS, HFS, EFI, and win over the markers: a description containing APFS
\* (Apple_APFS_Container among them) or 41504653 yields apfs, otherwise one
\* containing HFS yields hfs, otherwise one containing EFI or C12A7328
\* yields vfat; only then GUID_partition_scheme yields the empty fstype;
\* anything else is passed through, cut to 31 characters; an absent
\* description yields the empty fstype.
C10_SignaturesFirst ==
    Mapped =>
        IF IsNull(fn.args[1]) THEN fn.ret = ""
        ELSE LET c == Val(fn.args[1])
             IN  /\ HasApfs(c) => fn.ret = "apfs"
                 /\ (~HasApfs(c) /\ HasHfs(c)) => fn.ret = "hfs"
                 /\ (~HasApfs(c) /\ ~HasHfs(c) /\ HasEfi(c)) => fn.ret = "vfat"
                 /\ (~HasApfs(c) /\ ~HasHfs(c) /\ ~HasEfi(c)
                        /\ strstr(c, "GUID_partition_scheme")) => fn.ret = ""
                 /\ (~HasApfs(c) /\ ~HasHfs(c) /\ ~HasEfi(c)
                        /\ ~strstr(c, "GUID_partition_scheme"))
                        => /\ Len(fn.ret) = Min(Len(c), FSTYPE_KEEP)
                           /\ fn.ret = SubSeq(c, 1, Len(fn.ret))

\* a description with the container marker mapped to apfs
C10_Witness ==
    /\ Mapped
    /\ ~IsNull(fn.args[1])
    /\ strstr(Val(fn.args[1]), "Apple_APFS_Container")
    /\ fn.ret = "apfs"

\* a description longer than 31 characters passed through, cut
C10_WitnessCut ==
    /\ Mapped
    /\ ~IsNull(fn.args[1])
    /\ Len(Val(fn.args[1])) > FSTYPE_KEEP
    /\ Len(fn.ret) = FSTYPE_KEEP


-----------------------------------------------------------------------------
(* Properties of the forest and of the run *)

Nodes == 1..Len(flat)
RootSet == SeqSet(roots)

\* how often node h stands in some children sequence, in the root array
TimesChild(h) ==
    LET n == Len(flat)
        RECURSIVE Sum(_)
        Sum(p) == IF p = 0 THEN 0 ELSE Count(flat[p].children, h) + Sum(p - 1)
    IN  Sum(n)
TimesRoot(h) == Count(roots, h)

\* the nodes below h
Descendants(h) == Visited(flat, ChildSet(flat, {h}), {})
Acyclic == \A h \in Nodes : h \notin Descendants(h)

\* every node is a root once or a child once, never both, and nothing loops
IsForest ==
    /\ Acyclic
    /\ \A h \in Nodes : TimesRoot(h) + TimesChild(h) = 1
    /\ \A h \in Nodes : Count(Preorder(flat, roots), h) = 1

Built == pc \in {"mount", "enrich", "render", "teardown", "done"}

\* C1: after the topology build the forest is a set of trees, whatever the
\* listing: every non-root node stands in exactly one children sequence,
\* once; no root is a child; no node is its own ancestor; every node
\* reachable from a root is reached by exactly one path.
C1_Forest ==
    Built =>
        /\ Acyclic
        /\ \A h \in Nodes \ RootSet : TimesChild(h) = 1
        /\ \A h \in RootSet : TimesChild(h) = 0 /\ TimesRoot(h) = 1
        /\ \A h \in Nodes : Count(Preorder(flat, roots), h) <= 1

\* C2: at every step of the build the flat index holds at most one node per
\* identifier and exactly one for each identifier requested so far, so that
\* it has grown by one entry per created node and no more.
C2_OnePerIdentifier ==
    /\ \A i, j \in Nodes : flat[i].name = flat[j].name => i = j
    /\ {flat[i].name : i \in Nodes} = hist.seen
    /\ Len(flat) = Cardinality(hist.seen)
    /\ Len(hist.made) = Len(flat)

\* an identifier created by a top-level entry and requested again by a
\* volume entry, the flat index still holding one node for it
C2_Witness ==
    /\ pc = "collect"
    /\ invols
    /\ hist.req.existed
    /\ hist.made[hist.req.h].by = "top"
    /\ Len(flat) >= 2

\* C7: a request for an identifier the flat index already holds changes
\* nothing: the node keeps its size, kind, fstype, mount point, label, uuid
\* and parent, and is appended to no children sequence and not to the roots.
C7_RequestChangesNothing ==
    [][(pc = "collect" /\ pc' = "collect" /\ nent' = nent + 1 /\ hist'.req.existed)
        => /\ flat'[hist'.req.h] = flat[hist'.req.h]
           /\ roots' = roots
           /\ \A p \in Nodes : flat'[p].children = flat[p].children]_vars

\* C8: after teardown every node created by the build has been released
\* exactly once, and teardown started only after rendering.
C8_ReleasedOnce ==
    ("teardown" \in hist.phases) =>
        /\ "render" \in hist.phases
        /\ Len(freed) = Len(flat)
        /\ \A h \in Nodes : freed[h] = 1

MarksWhole(content) == ~IsNull(content) /\ HasContainerMarker(Val(content))

\* C9 as stated: after the build every root has kind disk and every child
\* has kind partition.
C9_KindByPosition ==
    Built =>
        /\ \A h \in RootSet : flat[h].type = "disk"
        /\ \A h \in Nodes : TimesChild(h) > 0 => flat[h].type = "part"

\* C9 as amended: kind follows the entry that created the node: a node
\* created by a top-level entry is a disk exactly when that entry's content
\* description contains GUID_partition_scheme or Apple_APFS_Container, and a
\* partition otherwise (a root with an empty, absent or unrecognized
\* description is a partition); a node created by a partition or volume
\* entry is a partition; later requests never change the kind.
C9_KindByCreator ==
    /\ Len(hist.made) = Len(flat)
    /\ \A h \in Nodes :
          flat[h].type = IF hist.made[h].by = "top" /\ MarksWhole(hist.made[h].content)
                         THEN "disk" ELSE "part"

\* a well-formed forest whose root, made from an Apple_HFS entry, is a partition
C9_Witness ==
    /\ Built
    /\ IsForest
    /\ \E h \in RootSet :
          /\ flat[h].type = "part"
          /\ hist.made[h].content = Some("Apple_HFS")
          /\ Len(flat[h].children) > 0


\* the listing could not be obtained, or build_tree has refused it
ListingFailed ==
    \/ list_plist = "NULL"
    \/ (list_plist \in {"nokey", "notarray"} /\ pc # "build_tree")

\* C4: when the listing cannot be obtained, is no dictionary, or lacks the
\* AllDisksAndPartitions array, the run ends with a nonzero status and one
\* diagnostic, prints nothing, and starts neither mount resolution nor
\* enrichment nor rendering.
C4_ListingFailure ==
    /\ ListingFailed =>
          /\ pc = "done"
          /\ status = 1
          /\ Len(errs) = 1
          /\ out = <<>>
          /\ hist.phases = {}
          /\ nmounts = 0
          /\ hist.info = <<>>
          /\ flat = <<>> /\ roots = <<>>
    /\ (list_plist \in {"nokey", "notarray"} /\ pc = "build_tree") =>
          (status = -1 /\ out = <<>> /\ errs = <<>> /\ hist.phases = {})

\* a run under -f refused by build_tree
C4_Witness == list_plist = "notarray" /\ pc = "done" /\ opt_f /\ status = 1

\* the lookup of node i gave a present, non-empty mount point
GaveMount(i) ==
    /\ ~IsNull(hist.info[i])
    /\ ~IsNull(Val(hist.info[i]).MountPoint)
    /\ Val(Val(hist.info[i]).MountPoint) # ""

\* the mount point a printed row shows, under the columns of -f
RowMount(row) == IF row.kind = "json" THEN row.cells[4] ELSE row.cells[5]
NodeRows == {k \in 1..Len(out) : out[k].kind \in {"root", "child", "list", "json"}}

\* C5: under -f, once a node's lookup is done, its mount point is the
\* lookup's when that is present and non-empty, whatever mount resolution or
\* the inline APFS record had set, and the one it had before enrichment
\* otherwise; the rows printed show that mount point.
C5_LookupMountWins ==
    opt_f =>
        /\ \A i \in 1..Len(hist.info) :
              flat[i].mountpoint = IF GaveMount(i)
                                   THEN Val(Val(hist.info[i]).MountPoint)
                                   ELSE hist.pre[i].mountpoint
        /\ \A k \in NodeRows :
              RowMount(out[k]) = flat[FindNode(flat, out[k].cells[1])].mountpoint

\* a node whose inline mount point "/" mount resolution replaced by
\* "/Volumes/Old" is printed with the lookup's "/Volumes/New"
C5_Witness ==
    /\ opt_f
    /\ pc = "done"
    /\ \E i \in 1..Len(hist.info) :
          /\ hist.pre[i].mountpoint = "/Volumes/Old"
          /\ hist.made[i].by = "vol"
          /\ GaveMount(i)
          /\ flat[i].mountpoint = "/Volumes/New"
          /\ \E k \in NodeRows :
                out[k].cells[1] = flat[i].name /\ RowMount(out[k]) = "/Volumes/New"

Fields(n) == <<n.fstype, n.label, n.uuid, n.mountpoint>>

\* C6: a failed lookup leaves the node's filesystem type, label, uuid and
\* mount point as they were before enrichment and touches no other node;
\* enrichment goes on with the remaining nodes, and the run reaches
\* rendering and exits successfully.
C6_FailedLookup ==
    /\ \A i \in 1..Len(hist.info) :
          IsNull(hist.info[i]) => Fields(flat[i]) = Fields(hist.pre[i])
    /\ \A i \in (Len(hist.info) + 1)..Len(hist.pre) : flat[i] = hist.pre[i]
    /\ ((\E i \in 1..Len(hist.info) : IsNull(hist.info[i])) /\ pc \in {"done", "crashed"})
          => /\ pc = "done"
             /\ status = 0
             /\ Len(hist.info) = Len(flat)
             /\ "render" \in hist.phases
             /\ out # <<>>

\* the part of C6 that holds on every listing: the fields stay, the other
\* nodes stay, and the loop goes on to rendering
C6_FieldsKept ==
    /\ \A i \in 1..Len(hist.info) :
          IsNull(hist.info[i]) => Fields(flat[i]) = Fields(hist.pre[i])
    /\ \A i \in (Len(hist.info) + 1)..Len(hist.pre) : flat[i] = hist.pre[i]
    /\ (pc \in {"render", "teardown", "done"} /\ opt_f) => Len(hist.info) = Len(flat)


-----------------------------------------------------------------------------
(* The rows of the tree (print_tree and main's tree branch) *)

\* the tree has been printed to its end
TreePrinted == pc \in {"teardown", "done"} /\ ~opt_J /\ ~opt_list

IsNotName(c) == c # COL_NAME

\* the node's name, then the value of every non-NAME column of cs, one per
\* occurrence and in the order of cs
NameThenOthers(n, cs) ==
    LET others == SelectSeq(cs, IsNotName)
    IN  <<n.name>> \o [k \in 1..Len(others) |-> Cell(n, others[k])]

\* the header names every column of cs, and row k is the row of the k-th
\* node the printer meets
RowsProject(cs) ==
    LET order == Preorder(flat, roots)
    IN  /\ Len(out) = Len(order) + 1
        /\ out[1].cells = [c \in 1..Len(cs) |-> col_names[cs[c] + 1]]
        /\ \A k \in 1..Len(order) :
              /\ out[k + 1].kind \in {"root", "child"}
              /\ out[k + 1].cells = NameThenOthers(flat[order[k]], cs)
              /\ Len(out[k + 1].cells) - 1
                    = Cardinality({c \in 1..Len(out[1].cells) : out[1].cells[c] # "NAME"})

\* C11: in tree output, for every accepted column list (NAME anywhere,
\* duplicates allowed) each node's row, root or child, is the node's name
\* followed by the value of every non-NAME column of the list, one per
\* occurrence and in the order given: exactly the non-NAME columns the
\* header row names.
C11_RowsFollowHeader == TreePrinted => RowsProject(cols)

\* C11 for the column lists that are empty or begin with NAME
C11_NameFirst ==
    (TreePrinted /\ (cols = <<>> \/ cols[1] = COL_NAME)) => RowsProject(cols)

\* a tree of a root and a child printed for the list NAME, MOUNTPOINT given
\* as "NAME, mountpoint"
C11_Witness ==
    /\ TreePrinted
    /\ opt_o = Some("NAME, mountpoint")
    /\ cols = <<COL_NAME, COL_MOUNTPOINT>>
    /\ \E k \in 1..Len(out) : out[k].kind = "child"


-----------------------------------------------------------------------------
(* The label after a successful lookup (fill_info) *)

\* the node's lookup has been made and returned a record
LookedUp(i) == i <= Len(hist.info) /\ ~IsNull(hist.info[i])

GaveText(ref) == ~IsNull(ref) /\ Val(ref) # ""

\* C12 as stated: after a successful lookup the label is the returned volume
\* name when that is non-empty; otherwise the returned media name when that
\* is non-empty, whatever label the node held before; otherwise the label
\* the node held before.
C12_LookupAlone ==
    \A i \in Nodes :
        LookedUp(i) =>
            LET d == Val(hist.info[i])
            IN  flat[i].label =
                    IF GaveText(d.VolumeName) THEN Val(d.VolumeName)
                    ELSE IF GaveText(d.MediaName) THEN Val(d.MediaName)
                    ELSE hist.pre[i].label

\* C12 as amended: after a successful lookup the label is the returned
\* volume name when that is non-empty; otherwise the returned media name
\* when that is non-empty and the node held no label before the lookup;
\* otherwise the label the node held before.
C12_MediaFillsEmpty ==
    \A i \in Nodes :
        LookedUp(i) =>
            LET d == Val(hist.info[i])
            IN  flat[i].label =
                    IF GaveText(d.VolumeName) THEN Val(d.VolumeName)
                    ELSE IF hist.pre[i].label = "" /\ GaveText(d.MediaName)
                         THEN Val(d.MediaName)
                    ELSE hist.pre[i].label

\* a volume labelled by its inline APFS record keeps that label through a
\* lookup that returns an empty volume name and a media name, while a node
\* without a label takes the media name
C12_Witness ==
    /\ pc \in {"render", "teardown", "done"}
    /\ \E i \in Nodes :
          /\ LookedUp(i)
          /\ ~GaveText(Val(hist.info[i]).VolumeName)
          /\ Val(hist.info[i]).MediaName = Some("Media")
          /\ hist.pre[i].label = "Data"
          /\ flat[i].label = "Data"
    /\ \E j \in Nodes :
          /\ LookedUp(j)
          /\ ~GaveText(Val(hist.info[j]).VolumeName)
          /\ hist.pre[j].label = ""
          /\ flat[j].label = "Media"

=============================================================================
